---- MODULE Spec2Model ----
(***************************************************************************)
(* Model of finance_analysis.py: one run of main() over one CSV file.      *)
(*                                                                         *)
(* Column names are sequences of ASCII code points, so that str.lower() is *)
(* a real conversion.  Amounts are exact decimals counted in thousandths   *)
(* of a currency unit, so that round(2) is a real conversion.  A cell of   *)
(* the CSV is a record [kind, ...]: a parsed value, an empty cell, or text *)
(* that does not parse.                                                    *)
(***************************************************************************)
EXTENDS Integers, Sequences, FiniteSets, TLC

VARIABLES header, rows, pc, called, error, df, monthly, by_cat,
          top10, cum_net, summary, written, printed

vars == <<header, rows, pc, called, error, df, monthly, by_cat,
          top10, cum_net, summary, written, printed>>

(* ------------------------------ bounds --------------------------------- *)
MaxRows == 2
MaxMonth == 2
MaxSeriesLen == 3
MaxCats == 11
MaxTie == 2

(* --------------------------- optional values --------------------------- *)
\* A local of main() before its assignment.
None == <<>>
Some(v) == <<v>>
Get(o, default) == IF o = None THEN default ELSE o[1]

(* ----------------------------- column names ---------------------------- *)
date == <<100, 97, 116, 101>>
description == <<100, 101, 115, 99, 114, 105, 112, 116, 105, 111, 110>>
amount == <<97, 109, 111, 117, 110, 116>>
category == <<99, 97, 116, 101, 103, 111, 114, 121>>
notes == <<110, 111, 116, 101, 115>>

required == {date, description, amount, category}

LowerChar(ch) == IF ch >= 65 /\ ch <= 90 THEN ch + 32 ELSE ch
UpperChar(ch) == IF ch >= 97 /\ ch <= 122 THEN ch - 32 ELSE ch

\* Variant of Lower: the name as written.
LowerIdentity(name) == name
\* str.lower() of one column name
Lower(name) == [i \in DOMAIN name |-> LowerChar(name[i])]

Title(name) == [i \in DOMAIN name |-> IF i = 1 THEN UpperChar(name[i]) ELSE name[i]]
Upper(name) == [i \in DOMAIN name |-> UpperChar(name[i])]

\* The spellings of a column in a CSV header: absent, or one letter case.
Spellings(name) == {{}, {name}, {Title(name)}, {Upper(name)}}

\* Headers of the input files: every required column absent or in one
\* spelling, with or without an extra column.
Headers ==
  { a \cup b \cup c \cup d \cup e :
      a \in Spellings(date), b \in Spellings(description),
      c \in Spellings(amount), d \in Spellings(category),
      e \in {{}, {Title(notes)}} }

(* -------------------------------- cells -------------------------------- *)
NaT == <<>>
NaN == <<>>
NaNCategory == 0

\* The dates of the input rows: the 15th of every month, and the 1st of
\* the first month.
Dates == {<<m, 15>> : m \in 1..MaxMonth} \cup {<<1, 1>>}

\* The amounts of the input rows, in thousandths.
Amounts == {-10, 0, 10}

EmptyDate == [kind |-> "empty", m |-> 0, d |-> 0]
TextDate == [kind |-> "text", m |-> 0, d |-> 0]
EmptyAmount == [kind |-> "empty", v |-> 0]
TextAmount == [kind |-> "text", v |-> 0]

\* A date cell: a date, or empty (read as NaT)
DateCells ==
  { [kind |-> "date", m |-> t[1], d |-> t[2]] : t \in Dates } \cup {EmptyDate}

AmountCells == { [kind |-> "num", v |-> v] : v \in Amounts }

\* A category is a label 1 or 2; an empty cell is read as NaN.
CategoryCells == {NaNCategory, 1, 2}

\* The rows of the input files: every date, amount and category together,
\* and rows with an empty amount, with text for a date and with text for
\* an amount.
RawRows ==
  [date : DateCells, amount : AmountCells, category : CategoryCells]
  \cup { [date |-> [kind |-> "date", m |-> 1, d |-> 1], amount |-> EmptyAmount, category |-> 1],
         [date |-> TextDate, amount |-> [kind |-> "num", v |-> -10], category |-> 1],
         [date |-> [kind |-> "date", m |-> 1, d |-> 1], amount |-> TextAmount, category |-> 1] }

(* ------------------------------ load_data ------------------------------ *)
NoError == [kind |-> "none", where |-> "none", missing |-> {}]
Raised(kind, where, missing) == [kind |-> kind, where |-> where, missing |-> missing]

\* pd.to_datetime of one cell
ToDatetime(cell) == IF cell.kind = "date" THEN <<cell.m, cell.d>> ELSE NaT

\* .dt.to_period("M").dt.to_timestamp(): the first day of the month
ToMonth(d) == IF d = NaT THEN NaT ELSE <<d[1], 1>>

\* read_csv of one amount cell of a numeric column
ToAmount(cell) == IF cell.kind = "num" THEN <<cell.v>> ELSE NaN

\* np.where(df["amount"] >= 0, "income", "expense"); NaN >= 0 is False
TypeOf(a) == IF a # NaN /\ a[1] >= 0 THEN "income" ELSE "expense"

ParseRow(r) ==
  LET d == ToDatetime(r.date)
      a == ToAmount(r.amount)
  IN [date |-> d, month |-> ToMonth(d), amount |-> a,
      category |-> r.category, type |-> TypeOf(a)]

(* ---------------------------- monthly_trends --------------------------- *)
\* The value Series.sum() adds for one cell: NaN is skipped.
Val(a) == IF a = NaN THEN 0 ELSE a[1]

RECURSIVE SumAmount(_, _)
\* ["amount"].sum() over the rows `idx` of `table`
SumAmount(table, idx) ==
  IF idx = {} THEN 0
  ELSE LET i == CHOOSE j \in idx : TRUE
       IN Val(table[i].amount) + SumAmount(table, idx \ {i})

\* df.groupby(["month", "type"])["amount"].sum(): one entry per (month, type)
\* that occurs; rows whose month is NaT are dropped (dropna=True).
GroupByMonthType(table) ==
  LET keyed == {i \in DOMAIN table : table[i].month # NaT}
      keys == {<<table[i].month, table[i].type>> : i \in keyed}
  IN [k \in keys |->
        SumAmount(table, {i \in keyed : table[i].month = k[1] /\ table[i].type = k[2]})]

\* Variant of Unstack: absent cells get another value than `fill`.
UnstackWrongFill(g, fill) ==
  [index |-> {k[1] : k \in DOMAIN g},
   columns |-> {k[2] : k \in DOMAIN g},
   val |-> [k \in {k[1] : k \in DOMAIN g} \X {k[2] : k \in DOMAIN g} |->
              IF k \in DOMAIN g THEN g[k] ELSE fill - 10]]
\* .unstack(fill_value=0): months down, types across, absent cells filled
Unstack(g, fill) ==
  [index |-> {k[1] : k \in DOMAIN g},
   columns |-> {k[2] : k \in DOMAIN g},
   val |-> [k \in {k[1] : k \in DOMAIN g} \X {k[2] : k \in DOMAIN g} |->
              IF k \in DOMAIN g THEN g[k] ELSE fill]]

\* if col not in monthly.columns: monthly[col] = 0
WithColumn(frame, col) ==
  IF col \in frame.columns THEN frame
  ELSE [index |-> frame.index,
        columns |-> frame.columns \cup {col},
        val |-> [k \in frame.index \X (frame.columns \cup {col}) |->
                   IF k[2] = col THEN 0 ELSE frame.val[k]]]

\* Timestamps compare chronologically.
Earlier(a, b) == a[1] < b[1] \/ (a[1] = b[1] /\ a[2] < b[2])

RECURSIVE SortIndex(_)
\* .sort_index(): the index labels in ascending order
SortIndex(S) ==
  IF S = {} THEN <<>>
  ELSE LET first == CHOOSE a \in S : \A b \in S \ {a} : Earlier(a, b)
       IN <<first>> \o SortIndex(S \ {first})

\* Variant of Net: expense taken as a magnitude.
NetSubtract(income, expense) == income - expense
\* monthly["net"] = monthly["income"] + monthly["expense"]
Net(income, expense) == income + expense

\* monthly_trends(df): one entry per month, ascending
MonthlyTrends(table) ==
  LET frame == WithColumn(WithColumn(Unstack(GroupByMonthType(table), 0),
                                     "income"), "expense")
      index == SortIndex(frame.index)
  IN [j \in DOMAIN index |->
        [month |-> index[j],
         income |-> frame.val[<<index[j], "income">>],
         expense |-> frame.val[<<index[j], "expense">>],
         net |-> Net(frame.val[<<index[j], "income">>],
                     frame.val[<<index[j], "expense">>])]]

(* -------------------------- category_breakdown ------------------------- *)
Before(a, b, ascending) ==
  IF ascending THEN a.amount <= b.amount ELSE a.amount >= b.amount

RECURSIVE SortValues(_, _)
\* Series.sort_values(ascending=...): the default kind is quicksort, which
\* is not stable, so entries of equal value come out in any order.
SortValues(S, ascending) ==
  IF S = {} THEN {<<>>}
  ELSE UNION { { <<e>> \o rest : rest \in SortValues(S \ {e}, ascending) } :
               e \in {x \in S : \A y \in S : Before(x, y, ascending)} }

\* df[df["amount"] < 0]; NaN < 0 is False
ExpenseRows(table) ==
  {i \in DOMAIN table : table[i].amount # NaN /\ table[i].amount[1] < 0}

\* exp.groupby("category")["amount"].sum(): rows whose category is NaN are
\* dropped (dropna=True)
GroupByCategory(table) ==
  LET exp == ExpenseRows(table)
      keys == {table[i].category : i \in exp} \ {NaNCategory}
  IN { [category |-> c,
        amount |-> SumAmount(table, {i \in exp : table[i].category = c})] :
       c \in keys }

\* category_breakdown(df): the results .sort_values() can give
CategoryBreakdown(table) == SortValues(GroupByCategory(table), TRUE)

(* ------------------------- save_charts / summary ----------------------- *)
TopChart == 10
TopSummary == 5

Abs(x) == IF x < 0 THEN -x ELSE x

Range(s) == {s[i] : i \in DOMAIN s}

\* Variant of HeadN: one entry short.
HeadShort(s, n) == SubSeq(s, 1, IF Len(s) < n - 1 THEN Len(s) ELSE n - 1)
\* Series.head(n)
HeadN(s, n) == SubSeq(s, 1, IF Len(s) < n THEN Len(s) ELSE n)

\* round(2) of an amount in thousandths: to the nearest hundredth, a half
\* to the even hundredth
Round2(x) ==
  LET q == x \div 10
      r == x % 10
  IN IF r < 5 THEN q * 10
     ELSE IF r > 5 THEN (q + 1) * 10
     ELSE IF q % 2 = 0 THEN q * 10 ELSE (q + 1) * 10

\* Variant of Rank: sorted ascending.
RankAscending(series, n) ==
  LET absolute == {[category |-> e.category, amount |-> Abs(e.amount)] :
                     e \in Range(series)}
  IN { [i \in DOMAIN HeadN(s, n) |->
          [category |-> s[i].category, amount |-> s[i].amount * (-1)]] :
       s \in SortValues(absolute, TRUE) }
\* by_cat.abs().sort_values(ascending=False).head(n) * -1
Rank(series, n) ==
  LET absolute == {[category |-> e.category, amount |-> Abs(e.amount)] :
                     e \in Range(series)}
  IN { [i \in DOMAIN HeadN(s, n) |->
          [category |-> s[i].category, amount |-> s[i].amount * (-1)]] :
       s \in SortValues(absolute, FALSE) }

\* Two heads of one sorted series agree where both have a place.
SameOrder(r, t) == \A i \in DOMAIN r \cap DOMAIN t : r[i] = t[i]

\* (... ).round(2)
RoundSeries(s) ==
  [i \in DOMAIN s |-> [category |-> s[i].category, amount |-> Round2(s[i].amount)]]

\* Variant of CumSum: nothing carried from month to month.
CumSumNoCarry(net) == net

RECURSIVE CumSum(_)
\* monthly["net"].cumsum()
CumSum(net) ==
  IF net = <<>> THEN <<>>
  ELSE LET init == CumSum(SubSeq(net, 1, Len(net) - 1))
       IN Append(init, (IF init = <<>> THEN 0 ELSE init[Len(init)]) + net[Len(net)])

RECURSIVE SumSeq(_)
\* Series.sum() of a column
SumSeq(s) == IF s = <<>> THEN 0 ELSE s[1] + SumSeq(Tail(s))

Column(series, col) == [i \in DOMAIN series |-> series[i][col]]

\* the totals and top5 of write_summary
Summary(m, c, top5) ==
  [total_income |-> SumSeq(Column(m, "income")),
   total_expense |-> SumSeq(Column(m, "expense")),
   total_net |-> SumSeq(Column(m, "net")),
   top5 |-> top5]

(* --------------------------------- main -------------------------------- *)
\* Variant of MainSteps: the summary written before the last two charts.
MainStepsSummaryFirst ==
  <<"load_data", "monthly_trends", "category_breakdown", "save_monthly_trend",
    "write_summary", "save_category_spend", "save_cumulative_net", "print">>
\* The statements of main(), with save_charts() unfolded into its three
\* charts, in program order.
MainSteps ==
  <<"load_data", "monthly_trends", "category_breakdown", "save_monthly_trend",
    "save_category_spend", "save_cumulative_net", "write_summary", "print">>

\* The statement after `step`.
Following(step) ==
  LET i == CHOOSE j \in DOMAIN MainSteps : MainSteps[j] = step
  IN IF i = Len(MainSteps) THEN "done" ELSE MainSteps[i + 1]

\* Variant of OnRaise: the exception is swallowed and the run goes on.
OnRaiseSwallow(step) == Following(step)
\* main() has no try/except: an exception raised in `step` ends the run.
OnRaise(step) == "failed"

Tables == UNION {[1..n -> RawRows] : n \in 0..MaxRows}

\* load_data(csv_path)
LoadData ==
  /\ pc = "load_data"
  /\ called' = Append(called, "load_data")
  /\ LET missing == required \ {Lower(c) : c \in header}
     IN IF missing # {}
        THEN /\ error' = Raised("ValueError", "load_data", missing)
             /\ pc' = OnRaise(pc)
             /\ df' = df
        ELSE IF \E i \in DOMAIN rows : rows[i].date.kind = "text"
        THEN /\ error' = Raised("ParseError", "load_data", {})
             /\ pc' = OnRaise(pc)
             /\ df' = df
        ELSE IF \E i \in DOMAIN rows : rows[i].amount.kind = "text"
        THEN /\ error' = Raised("TypeError", "load_data", {})
             /\ pc' = OnRaise(pc)
             /\ df' = df
        ELSE /\ df' = Some([i \in DOMAIN rows |-> ParseRow(rows[i])])
             /\ pc' = Following(pc)
             /\ error' = error
  /\ UNCHANGED <<header, rows, monthly, by_cat, top10, cum_net, summary,
                 written, printed>>

\* monthly = monthly_trends(df)
RunMonthlyTrends ==
  /\ pc = "monthly_trends"
  /\ called' = Append(called, "monthly_trends")
  /\ monthly' = Some(MonthlyTrends(Get(df, <<>>)))
  /\ pc' = Following(pc)
  /\ UNCHANGED <<header, rows, error, df, by_cat, top10, cum_net, summary,
                 written, printed>>

\* by_cat = category_breakdown(df)
RunCategoryBreakdown ==
  /\ pc = "category_breakdown"
  /\ called' = Append(called, "category_breakdown")
  /\ \E s \in CategoryBreakdown(Get(df, <<>>)) : by_cat' = Some(s)
  /\ pc' = Following(pc)
  /\ UNCHANGED <<header, rows, error, df, monthly, top10, cum_net, summary,
                 written, printed>>

\* plt.savefig / write_text of one artifact: it is written, or the output
\* location fails.
WriteArtifact(name) ==
  \E ok \in BOOLEAN :
    IF ok
    THEN /\ written' = Append(written, name)
         /\ pc' = Following(pc)
         /\ error' = error
    ELSE /\ written' = written
         /\ pc' = OnRaise(pc)
         /\ error' = Raised("IOError", pc, {})

\* save_charts: the monthly trend chart
SaveMonthlyTrend ==
  /\ pc = "save_monthly_trend"
  /\ called' = Append(called, "save_charts")
  /\ WriteArtifact("monthly_trend.png")
  /\ UNCHANGED <<header, rows, df, monthly, by_cat, top10, cum_net, summary,
                 printed>>

\* save_charts: the category chart.  A bar plot of an empty Series raises
\* (pandas reads the first bar position, IndexError) before savefig.
SaveCategorySpend ==
  /\ pc = "save_category_spend"
  /\ \E r \in Rank(Get(by_cat, <<>>), TopChart) :
       /\ top10' = Some(r)
       /\ IF r = <<>>
          THEN /\ written' = written
               /\ pc' = OnRaise(pc)
               /\ error' = Raised("IndexError", pc, {})
          ELSE WriteArtifact("category_spend.png")
  /\ UNCHANGED <<header, rows, called, df, monthly, by_cat, cum_net, summary,
                 printed>>

\* save_charts: the cumulative net chart
SaveCumulativeNet ==
  /\ pc = "save_cumulative_net"
  /\ cum_net' = Some(CumSum(Column(Get(monthly, <<>>), "net")))
  /\ WriteArtifact("cumulative_net.png")
  /\ UNCHANGED <<header, rows, called, df, monthly, by_cat, top10, summary,
                 printed>>

\* write_summary(monthly, by_cat).  The sort is not stable but it is a
\* function: sorting the same series a second time gives the order the
\* first sort gave.
WriteSummary ==
  /\ pc = "write_summary"
  /\ called' = Append(called, "write_summary")
  /\ \E r \in Rank(Get(by_cat, <<>>), TopSummary) :
       /\ SameOrder(r, Get(top10, <<>>))
       /\ summary' = Some(Summary(Get(monthly, <<>>), Get(by_cat, <<>>), RoundSeries(r)))
  /\ WriteArtifact("summary_report.md")
  /\ UNCHANGED <<header, rows, df, monthly, by_cat, top10, cum_net, printed>>

\* print("Done! ...")
PrintDone ==
  /\ pc = "print"
  /\ printed' = TRUE
  /\ pc' = Following(pc)
  /\ UNCHANGED <<header, rows, called, error, df, monthly, by_cat, top10,
                 cum_net, summary, written>>

\* The header the tables with rows are read under.
MixedCaseHeader ==
  {Title(date), description, Upper(amount), Title(category), Title(notes)}

Init ==
  /\ \/ header \in Headers /\ rows = <<>>
     \/ header = MixedCaseHeader /\ rows \in Tables
  /\ pc = "load_data"
  /\ called = <<>>
  /\ error = NoError
  /\ df = None
  /\ monthly = None
  /\ by_cat = None
  /\ top10 = None
  /\ cum_net = None
  /\ summary = None
  /\ written = <<>>
  /\ printed = FALSE

Next ==
  \/ LoadData
  \/ RunMonthlyTrends
  \/ RunCategoryBreakdown
  \/ SaveMonthlyTrend
  \/ SaveCategorySpend
  \/ SaveCumulativeNet
  \/ WriteSummary
  \/ PrintDone

Spec == Init /\ [][Next]_vars

(* ------------- save_charts and write_summary on their own -------------- *)
\* The arguments main() can pass to save_charts and write_summary.  Any
\* MonthlySeries goes with any CategorySeries: expense rows without a date
\* reach only by_cat, expense rows without a category only monthly.

\* Monthly series of up to MaxSeriesLen consecutive months.
MonthlyInputs ==
  UNION { { [j \in 1..n |->
               [month |-> <<j, 1>>, income |-> f[j][1], expense |-> f[j][2],
                net |-> Net(f[j][1], f[j][2])]] :
            f \in [1..n -> {0, 10} \X {-20, 0}] } :
          n \in 0..MaxSeriesLen }

RECURSIVE SuffixSum(_, _)
SuffixSum(d, i) == IF i > Len(d) THEN 0 ELSE d[i] + SuffixSum(d, i + 1)

\* The steps between the totals of a series of k categories whose places
\* p .. p + g - 1 hold one total and whose places q .. q + h - 1 hold one
\* total: 0 inside a tie, 0.002 elsewhere.
Steps(k, p, g, q, h) ==
  [i \in 1..k |->
     IF (i >= p /\ i < p + g - 1) \/ (i >= q /\ i < q + h - 1) THEN 0 ELSE 2]

\* Category series of up to MaxCats categories as category_breakdown returns
\* them: totals negative and ascending, with two runs of up to MaxTie equal totals, labels
\* in either direction.
CategoryInputs ==
  {<<>>} \cup
  UNION { { [i \in 1..k |->
               [category |-> IF up THEN i ELSE k + 1 - i,
                amount |-> 0 - (10 + SuffixSum(Steps(k, t[1], g, t[2], h), i))]] :
            t \in {u \in (1..k) \X (1..(k + 1)) :
                      u[1] + g - 1 <= k /\ u[2] >= u[1] + g},
            up \in BOOLEAN } :
          k \in 1..MaxCats, g \in 1..MaxTie, h \in 1..MaxTie }

OneMonth == <<[month |-> <<1, 1>>, income |-> 10, expense |-> -20, net |-> Net(10, -20)]>>
OneCategory == <<[category |-> 1, amount |-> -20]>>

ReporterInit ==
  /\ \/ monthly \in {Some(m) : m \in MonthlyInputs} /\ by_cat = Some(OneCategory)
     \/ monthly = Some(OneMonth) /\ by_cat \in {Some(c) : c \in CategoryInputs}
  /\ pc = "save_monthly_trend"
  /\ header = {}
  /\ rows = <<>>
  /\ called = <<>>
  /\ error = NoError
  /\ df = None
  /\ top10 = None
  /\ cum_net = None
  /\ summary = None
  /\ written = <<>>
  /\ printed = FALSE

ReporterNext ==
  \/ SaveMonthlyTrend
  \/ SaveCategorySpend
  \/ SaveCumulativeNet
  \/ WriteSummary
  \/ PrintDone

ReporterSpec == ReporterInit /\ [][ReporterNext]_vars

(* ============================== properties ============================= *)
Called(f) == \E i \in DOMAIN called : called[i] = f

\* Two column names that differ at most in the case of their letters.
SameIgnoringCase(a, b) ==
  Len(a) = Len(b) /\ \A i \in DOMAIN a : a[i] % 32 = b[i] % 32

\* The required columns the header lacks, compared case-insensitively.
MissingOf(h) == {r \in required : ~ \E c \in h : SameIgnoringCase(c, r)}

\* C1: once load_data has run, a header that lacks required columns
\* (case-insensitively) has made it fail with the error naming exactly the
\* missing set and no table returned; a header with all four has not
\* raised the missing-columns error.
C1_SchemaValidation ==
  Called("load_data") =>
    /\ MissingOf(header) # {} =>
         /\ error = Raised("ValueError", "load_data", MissingOf(header))
         /\ df = None
         /\ pc = "failed"
    /\ MissingOf(header) = {} => error.kind # "ValueError"

C1_Witness ==
  /\ error.kind = "ValueError"
  /\ error.missing = {description, amount}
  /\ Upper(date) \in header
  /\ Title(category) \in header

\* The input makes load_data fail: a required column is missing, or a date
\* or amount cell does not parse.
LoadMustFail ==
  \/ MissingOf(header) # {}
  \/ \E i \in DOMAIN rows : rows[i].date.kind = "text" \/ rows[i].amount.kind = "text"

\* C2: when loading fails, the run has aborted: no aggregation was invoked,
\* no artifact was written and the completion notice was not printed.
C2_LoadFailureAborts ==
  (Called("load_data") /\ LoadMustFail) =>
    /\ error.where = "load_data"
    /\ pc = "failed"
    /\ called = <<"load_data">>
    /\ monthly = None
    /\ by_cat = None
    /\ written = <<>>
    /\ ~ printed

C2_Witness ==
  /\ pc = "failed"
  /\ error.kind = "TypeError"
  /\ MissingOf(header) = {}
  /\ Len(rows) = 2

RECURSIVE Total(_, _, _)
\* The sum of column `col` over the first n entries of a series.
Total(series, col, n) ==
  IF n = 0 THEN 0 ELSE Total(series, col, n - 1) + series[n][col]

\* C3: net = income + expense for every month, with income >= 0 and
\* expense <= 0, and the totals of the summary satisfy
\* totalNet = totalIncome + totalExpense, each total the sum of its column.
C3_NetIdentity ==
  /\ monthly # None =>
       \A j \in DOMAIN monthly[1] :
         /\ monthly[1][j].net = monthly[1][j].income + monthly[1][j].expense
         /\ monthly[1][j].income >= 0
         /\ monthly[1][j].expense <= 0
  /\ (summary # None /\ monthly # None) =>
       /\ summary[1].total_income = Total(monthly[1], "income", Len(monthly[1]))
       /\ summary[1].total_expense = Total(monthly[1], "expense", Len(monthly[1]))
       /\ summary[1].total_net = Total(monthly[1], "net", Len(monthly[1]))
       /\ summary[1].total_net = summary[1].total_income + summary[1].total_expense

C3_Witness ==
  /\ summary # None
  /\ monthly # None
  /\ Len(monthly[1]) = 2
  /\ monthly[1][1].income > 0
  /\ monthly[1][2].expense < 0
  /\ summary[1].total_net = 0

\* The expense rows of the input with category c: amount < 0.
ExpenseCells(c) ==
  {i \in DOMAIN rows : /\ rows[i].amount.kind = "num"
                       /\ rows[i].amount.v < 0
                       /\ rows[i].category = c}

RECURSIVE SumCells(_)
SumCells(idx) ==
  IF idx = {} THEN 0
  ELSE LET i == CHOOSE j \in idx : TRUE IN rows[i].amount.v + SumCells(idx \ {i})

\* C4: category_breakdown counts no row with amount >= 0, and the sum of
\* the CategorySeries equals the sum of the expense column of the
\* MonthlySeries of the same table, rows with an empty category or date
\* included.
C4_CategorySumEqualsExpense ==
  (monthly # None /\ by_cat # None) =>
    /\ \A j \in DOMAIN by_cat[1] :
         by_cat[1][j].amount = SumCells(ExpenseCells(by_cat[1][j].category))
    /\ Total(by_cat[1], "amount", Len(by_cat[1]))
         = Total(monthly[1], "expense", Len(monthly[1]))

\* The month buckets of the input: the first day of the month of every
\* row that has a date.
Buckets == {<<rows[i].date.m, 1>> : i \in {k \in DOMAIN rows : rows[k].date.kind = "date"}}

RowsOf(bucket, type) ==
  {i \in DOMAIN rows : /\ rows[i].date.kind = "date"
                       /\ rows[i].date.m = bucket[1]
                       /\ IF type = "income"
                          THEN rows[i].amount.kind = "num" /\ rows[i].amount.v >= 0
                          ELSE ~ (rows[i].amount.kind = "num" /\ rows[i].amount.v >= 0)}

\* C5: the MonthlySeries holds exactly the month buckets of the input,
\* each once, in ascending order, and a month without income (expense)
\* rows has income (expense) 0.
C5_MonthlyCompleteness ==
  monthly # None =>
    /\ {monthly[1][j].month : j \in DOMAIN monthly[1]} = Buckets
    /\ \A j, k \in DOMAIN monthly[1] :
         j < k => Earlier(monthly[1][j].month, monthly[1][k].month)
    /\ \A j \in DOMAIN monthly[1] :
         /\ RowsOf(monthly[1][j].month, "income") = {} => monthly[1][j].income = 0
         /\ RowsOf(monthly[1][j].month, "expense") = {} => monthly[1][j].expense = 0

C5_Witness ==
  /\ monthly # None
  /\ Len(monthly[1]) = 2
  /\ monthly[1][1].income = 0 /\ monthly[1][1].expense < 0
  /\ monthly[1][2].income > 0 /\ monthly[1][2].expense = 0
  /\ \A i \in DOMAIN rows : rows[i].date.d > 1

Min(a, b) == IF a < b THEN a ELSE b

\* The total of category c in a CategorySeries.
TotalOf(series, c) ==
  LET i == CHOOSE j \in DOMAIN series : series[j].category = c
  IN series[i].amount

\* The place of category c in a CategorySeries.
PlaceOf(series, c) == CHOOSE j \in DOMAIN series : series[j].category = c

\* t ranks the n categories of `series` with the greatest absolute totals,
\* by descending absolute value.
IsTopN(t, series, n) ==
  /\ Len(t) = Min(n, Len(series))
  /\ \A i, j \in DOMAIN t :
       /\ i < j => Abs(t[i].amount) >= Abs(t[j].amount)
       /\ i # j => t[i].category # t[j].category
  /\ \A i \in DOMAIN t : \E j \in DOMAIN series : series[j].category = t[i].category
  /\ \A j \in DOMAIN series :
       (\A i \in DOMAIN t : t[i].category # series[j].category) =>
         \A i \in DOMAIN t :
           Abs(series[j].amount) <= Abs(TotalOf(series, t[i].category))

\* C6 as stated: topCategorySeries and top5 have min(10, k) and min(5, k)
\* entries, rank the greatest absolute totals in descending order, and
\* every output value equals the category's signed total.
C6_TopNSignedTotals ==
  /\ (top10 # None /\ by_cat # None) =>
       /\ IsTopN(top10[1], by_cat[1], TopChart)
       /\ \A i \in DOMAIN top10[1] :
            top10[1][i].amount = TotalOf(by_cat[1], top10[1][i].category)
  /\ (summary # None /\ by_cat # None) =>
       /\ IsTopN(summary[1].top5, by_cat[1], TopSummary)
       /\ \A i \in DOMAIN summary[1].top5 :
            summary[1].top5[i].amount
              = TotalOf(by_cat[1], summary[1].top5[i].category)

\* The hundredth nearest to x (in thousandths): no other hundredth is
\* strictly nearer.
NearestHundredth(y, x) ==
  /\ y % 10 = 0
  /\ Abs(y - x) <= 5
  /\ Abs(y - x) = 5 => (y \div 10) % 2 = 0

\* C6 as amended: as above, but a top5 value is the category's signed
\* total rounded to 2 decimal places.
C6_TopNRounded ==
  /\ (top10 # None /\ by_cat # None) =>
       /\ IsTopN(top10[1], by_cat[1], TopChart)
       /\ \A i \in DOMAIN top10[1] :
            top10[1][i].amount = TotalOf(by_cat[1], top10[1][i].category)
  /\ (summary # None /\ by_cat # None) =>
       /\ IsTopN(summary[1].top5, by_cat[1], TopSummary)
       /\ \A i \in DOMAIN summary[1].top5 :
            NearestHundredth(summary[1].top5[i].amount,
                             TotalOf(by_cat[1], summary[1].top5[i].category))

C6_Witness ==
  /\ summary # None
  /\ top10 # None
  /\ by_cat # None
  /\ Len(by_cat[1]) > TopChart
  /\ Len(top10[1]) = TopChart
  /\ Len(summary[1].top5) = TopSummary
  /\ \E i \in DOMAIN summary[1].top5 :
       summary[1].top5[i].amount # TotalOf(by_cat[1], summary[1].top5[i].category)

NonDecreasing(s) == \A i \in DOMAIN s : i > 1 => s[i - 1] <= s[i]

\* cum is the running sum of the net column of m.
IsRunningSum(cum, m) ==
  /\ Len(cum) = Len(m)
  /\ \A i \in DOMAIN cum :
       IF i = 1 THEN cum[i] = m[i].net ELSE cum[i] - cum[i - 1] = m[i].net

\* C7 as stated: cumulativeNetSeries is the running sum of net, and it is
\* non-decreasing exactly when all net values are >= 0.
C7_NonDecreasingIffAllNonNegative ==
  (cum_net # None /\ monthly # None) =>
    /\ IsRunningSum(cum_net[1], monthly[1])
    /\ NonDecreasing(cum_net[1]) <=> \A i \in DOMAIN monthly[1] : monthly[1][i].net >= 0

\* C7 as amended: cumulativeNetSeries is the running sum of net, and it is
\* non-decreasing exactly when every net value after the first is >= 0.
C7_CumulativeNet ==
  (cum_net # None /\ monthly # None) =>
    /\ IsRunningSum(cum_net[1], monthly[1])
    /\ NonDecreasing(cum_net[1]) <=>
         \A i \in DOMAIN monthly[1] : i > 1 => monthly[1][i].net >= 0

C7_Witness ==
  /\ cum_net # None
  /\ monthly # None
  /\ Len(cum_net[1]) = 3
  /\ monthly[1][1].net < 0
  /\ monthly[1][2].net > 0
  /\ NonDecreasing(cum_net[1])

\* The input has rows, every one an income row, under a complete header.
IncomeOnly ==
  /\ MissingOf(header) = {}
  /\ rows # <<>>
  /\ \A i \in DOMAIN rows :
       /\ rows[i].date.kind # "text"
       /\ rows[i].amount.kind = "num"
       /\ rows[i].amount.v >= 0

\* C8: on an input with only income rows the CategorySeries and both
\* rankings are empty, every month has expense 0, and the run does not
\* fail (other than by the output location failing) but completes.
C8_IncomeOnlyCompletes ==
  IncomeOnly =>
    /\ by_cat # None => by_cat[1] = <<>>
    /\ top10 # None => top10[1] = <<>>
    /\ summary # None => summary[1].top5 = <<>>
    /\ monthly # None => \A j \in DOMAIN monthly[1] : monthly[1][j].expense = 0
    /\ error.kind \in {"none", "IOError"}
    /\ error.kind = "none" => pc # "failed"

\* Categories of equal absolute total stand in t in the order they have in
\* the CategorySeries.
TiesKeepOrder(t, series) ==
  \A i, j \in DOMAIN t :
    (i < j /\ Abs(TotalOf(series, t[i].category)) = Abs(TotalOf(series, t[j].category)))
      => PlaceOf(series, t[i].category) < PlaceOf(series, t[j].category)

Artifacts ==
  <<"monthly_trend.png", "category_spend.png", "cumulative_net.png",
    "summary_report.md">>

\* C10: at every point of a run the artifacts written are a prefix of
\* monthly_trend.png, category_spend.png, cumulative_net.png,
\* summary_report.md; none is written before both aggregations have
\* finished, and the notice is printed only after all four.
C10_ArtifactOrder ==
  /\ Len(written) <= Len(Artifacts)
  /\ written = SubSeq(Artifacts, 1, Len(written))
  /\ written # <<>> =>
       /\ Called("monthly_trends") /\ monthly # None
       /\ Called("category_breakdown") /\ by_cat # None
  /\ printed => written = Artifacts

C10_Witness ==
  /\ pc = "failed"
  /\ error.kind = "IOError"
  /\ error.where = "save_cumulative_net"
  /\ Len(written) = 2

====
